---- MODULE Spec2Model ----
(***************************************************************************)
(* SmartBrightness: camera-driven backlight control.                       *)
(*                                                                         *)
(*   scripts/brightness_transition.py  ease_out, smooth_transition         *)
(*   scripts/smart_brightness.py       profile loading, runtime sampler,   *)
(*                                     device access, mapping, main        *)
(*   scripts/calibration.py            calibrate_camera                    *)
(*                                                                         *)
(* The program is single-threaded.  One variable pc holds the position of  *)
(* the running function and stack the return positions of its callers, so  *)
(* the same actions serve the whole control cycle (Spec) and the runs of   *)
(* one function on enumerated inputs (TransSpec, RunSpec, MapSpec,         *)
(* BurstSpec, SamplerSpec, CycleSpec).                                     *)
(*                                                                         *)
(* Numbers.  Brightness percentages are integers.  Ambient levels are      *)
(* Python floats in the program; the model draws them from integer grey    *)
(* levels and evaluates the float expressions exactly, corrected in the    *)
(* places where IEEE-754 double evaluation of the source expression lands  *)
(* just below an integer that exact arithmetic reaches (FloatDeficit,      *)
(* InterpDeficit).  None is the Python value None.                         *)
(***************************************************************************)
EXTENDS Integers, Sequences, FiniteSets, TLC

VARIABLES
    pc,               \* position of the running function
    stack,            \* return positions of the callers
    \* -- environment -------------------------------------------------------
    device,           \* "ok" | "unavailable": backlight files and brightnessctl
    hw,               \* percentage the backlight files encode
    sensor,           \* "ok" | "unavailable": whether cv2.VideoCapture(0) opens
    script,           \* whether calibration.py exists beside the program
    scene,            \* trimmed means the light in front of the sensor can give
    disk,             \* the profile file: [state, data]
    handles,          \* owners of an open, unreleased sensor handle
    \* -- load_camera_profile and the calibration subprocess ----------------
    loaded,           \* value returned by load_camera_profile
    returncode,       \* exit status of the calibration subprocess
    outcome,          \* how the last calibration run ended, "none" before any
    \* -- one sampling burst (calibrate_camera, get_average_brightness) ------
    usable_brightness, frames_captured, max_attempts,
    frame,            \* ret and raw mean of the last frame the burst read
    bright,           \* trimmed means of the frames a runtime burst read with raw
                      \* mean above the noise floor, in order
    \* -- main ---------------------------------------------------------------
    profile, ambient, target_percent, current_percent,
    \* -- smooth_transition(current, target, duration, step_size, setter, reader)
    current, target, step_size, setter, reader,
    steps, step, transition_value,
    polls,            \* failed feedback polls of the step being verified
    \* -- observation of one run -----------------------------------------
    applied,          \* values passed to setter, in call order
    reads,            \* calls of reader
    sleeps            \* calls of time.sleep

transVars == <<current, target, step_size, setter, reader, steps, step,
               transition_value, polls>>
obsVars   == <<applied, reads, sleeps>>
devVars   == <<device, hw>>

envVars   == <<sensor, script, scene>>
loadVars  == <<loaded, returncode, outcome>>
burstVars == <<usable_brightness, frames_captured, max_attempts, frame, bright>>
mainVars  == <<profile, ambient, target_percent, current_percent>>
\* everything smooth_transition never touches
camVars   == <<envVars, disk, handles, loadVars, burstVars, mainVars>>

vars == <<pc, stack, devVars, envVars, disk, handles, loadVars, burstVars,
          mainVars, transVars, obsVars>>

None == -1

\* ------------------------------------------------------------------ bounds
MaxStepSize == 2      \* step sizes 1..MaxStepSize are tried
MaxPolls    == 3      \* failed polls followed for one step
MaxAmbient  == 175    \* grey levels 0..MaxAmbient are tried as ambient values

\* ---------------------------------------------------------------- helpers
Abs(x) == IF x < 0 THEN -x ELSE x
Max(a, b) == IF a >= b THEN a ELSE b
Min(a, b) == IF a <= b THEN a ELSE b
Clip(x, lo, hi) == Max(lo, Min(hi, x))
\* int(): truncation toward zero of the rational num/den, den > 0
Trunc(num, den) == IF num >= 0 THEN num \div den ELSE -((-num) \div den)
Last(s) == s[Len(s)]

\* ----------------------------------------------------------- control flow
Return == IF stack = <<>>
          THEN pc' = "exit" /\ stack' = stack
          ELSE pc' = Head(stack) /\ stack' = Tail(stack)

\* ------------------------------------------------------- BrightnessDevice
\* get_current_brightness: 50 when the backlight files cannot be read
get_current_brightness == IF device = "ok" THEN hw ELSE 50

\* set_brightness(percent): nothing when brightnessctl is missing, else the
\* clipped percentage is written
set_brightness(percent) == IF device = "ok" THEN Clip(percent, 5, 100) ELSE hw

\* ------------------------------------------------------ smooth_transition
\* ease_out(step/steps) = 1 - (1 - step/steps)**3 = EaseNum / steps**3
Cube(n) == n * n * n
EaseNum(s, n) == Cube(n) - Cube(n - s)

\* least power of two >= x, x >= 1
RECURSIVE Pow2Above(_, _)
Pow2Above(x, p) == IF p >= x THEN p ELSE Pow2Above(x, 2 * p)

\* Double evaluation of current + diff*ease_out(step/steps)*direction falls
\* one ulp short of the integer exact arithmetic gives exactly when
\* step/steps = 1/3 (ease_out(1/3) evaluates below 19/27), diff is a
\* multiple of 27, the direction is upward, and adding current does not
\* carry the sum into the next binade (where the deficit is rounded away).
FloatDeficit(cur, d, dir, s, n) ==
    /\ dir = 1
    /\ 3 * s = n
    /\ d % 27 = 0
    /\ cur + 19 * (d \div 27) <= Pow2Above(19 * (d \div 27), 1)

StepCount_NoFloor(cur, tgt, ss) == Abs(tgt - cur) \div ss

\* lines 19-20
StepCount(cur, tgt, ss) == Max(Abs(tgt - cur) \div ss, 1)

Direction(cur, tgt) == IF tgt > cur THEN 1 ELSE -1

TransitionValue_NoClamp(cur, tgt, s, n) ==
    LET d   == Abs(tgt - cur)
        dir == Direction(cur, tgt)
    IN  Trunc(cur * Cube(n) + dir * d * EaseNum(s, n), Cube(n))

TransitionValue_Overshoot(cur, tgt, s, n) ==
    LET d   == Abs(tgt - cur)
        dir == Direction(cur, tgt)
    IN  Clip(Trunc(cur * Cube(n) + dir * (d + 2) * EaseNum(s, n), Cube(n)), 5, 100)

\* lines 26-30: the value commanded at loop index s of n
TransitionValue(cur, tgt, s, n) ==
    LET d   == Abs(tgt - cur)
        dir == Direction(cur, tgt)
        v   == Trunc(cur * Cube(n) + dir * d * EaseNum(s, n), Cube(n))
        f   == IF FloatDeficit(cur, d, dir, s, n) THEN v - 1 ELSE v
    IN  Clip(f, 5, 100)

TransitionEnter_NoShortCircuit ==
    /\ pc = "smooth_transition"
    /\ steps' = StepCount(current, target, step_size)
    /\ step' = 0
    /\ pc' = "transition_loop"
    /\ UNCHANGED <<camVars, stack, devVars, current, target, step_size, setter, reader,
                   transition_value, polls, obsVars>>

\* lines 16-22: no-op when current == target, else the plan
TransitionEnter ==
    /\ pc = "smooth_transition"
    /\ IF current = target
       THEN /\ Return
            /\ UNCHANGED <<steps, step>>
       ELSE /\ steps' = StepCount(current, target, step_size)
            /\ step' = 0
            /\ pc' = "transition_loop"
            /\ stack' = stack
    /\ UNCHANGED <<camVars, devVars, current, target, step_size, setter, reader,
                   transition_value, polls, obsVars>>

\* lines 24-35 of one iteration; without a reader also line 42 and the
\* loop increment
TransitionStep ==
    /\ pc = "transition_loop"
    /\ step < steps
    /\ LET v == TransitionValue(current, target, step, steps) IN
       /\ transition_value' = v
       /\ IF setter
          THEN /\ applied' = Append(applied, v)
               /\ hw' = set_brightness(v)
          ELSE UNCHANGED <<applied, hw>>
    /\ polls' = 0
    /\ IF reader
       THEN /\ pc' = "transition_poll"
            /\ UNCHANGED <<step, sleeps>>
       ELSE /\ sleeps' = sleeps + 1
            /\ step' = step + 1
            /\ pc' = "transition_loop"
    /\ UNCHANGED <<camVars, stack, device, current, target, step_size, setter, reader,
                   steps, reads>>

TransitionPoll_NoWait ==
    /\ pc = "transition_poll"
    /\ reads' = reads + 1
    /\ sleeps' = sleeps + 1
    /\ step' = step + 1
    /\ pc' = "transition_loop"
    /\ polls' = polls
    /\ UNCHANGED <<camVars, stack, devVars, current, target, step_size, setter, reader,
                   steps, transition_value, applied>>

TransitionPoll_NeverMatch ==
    /\ pc = "transition_poll"
    /\ polls < MaxPolls
    /\ polls' = polls + 1
    /\ reads' = reads + 1
    /\ sleeps' = sleeps + 1
    /\ UNCHANGED <<pc, step>>
    /\ UNCHANGED <<camVars, stack, devVars, current, target, step_size, setter, reader,
                   steps, transition_value, applied>>

\* lines 38-42: one evaluation of the while condition; a mismatch sleeps the
\* poll interval and stays, a match sleeps the step delay and moves on
TransitionPoll ==
    /\ pc = "transition_poll"
    /\ LET r == get_current_brightness IN
       IF Abs(r - transition_value) > 1
       THEN /\ polls < MaxPolls
            /\ polls' = polls + 1
            /\ reads' = reads + 1
            /\ sleeps' = sleeps + 1
            /\ UNCHANGED <<pc, step>>
       ELSE /\ reads' = reads + 1
            /\ sleeps' = sleeps + 1
            /\ step' = step + 1
            /\ pc' = "transition_loop"
            /\ polls' = polls
    /\ UNCHANGED <<camVars, stack, devVars, current, target, step_size, setter, reader,
                   steps, transition_value, applied>>

TransitionFinal_NoCorrection ==
    /\ pc = "transition_loop"
    /\ step = steps
    /\ Return
    /\ UNCHANGED <<camVars, devVars, transVars, obsVars>>

\* lines 44-46: the final correction, then return
TransitionFinal ==
    /\ pc = "transition_loop"
    /\ step = steps
    /\ IF setter
       THEN /\ applied' = Append(applied, target)
            /\ hw' = set_brightness(target)
       ELSE UNCHANGED <<applied, hw>>
    /\ Return
    /\ UNCHANGED <<camVars, device, transVars, reads, sleeps>>

\* ---------------------------------------------------------- AmbientMapper
\* numpy.interp(x, [xp0, xp1], [fp0, fp1]) evaluates slope*(x - xp0) + fp0
\* with slope = (fp1 - fp0)/(xp1 - xp0) in doubles.  For integer arguments
\* the result is the exact value except at these (x - xp0, xp1 - xp0), where
\* the exact value is an integer and the rounded slope leaves the product one
\* ulp below it (all the cases with xp1 - xp0 < 312 and fp = [10, 100]).
InterpDeficit(k, d) ==
    <<k, d>> \in {<<39, 78>>, <<78, 156>>, <<99, 165>>, <<105, 175>>}

\* int() of numpy.interp(x, [xp0, xp1], [10, 100]): the left value below
\* xp0, the right value above xp1 and at xp1, fp0 at xp0, else the line
Interp(x, xp0, xp1) ==
    IF x > xp1 THEN 100
    ELSE IF x < xp0 THEN 10
    ELSE IF x >= xp1 THEN 100
    ELSE IF x = xp0 THEN 10
    ELSE LET k == x - xp0
             d == xp1 - xp0
             v == Trunc(10 * d + 90 * k, d)
         IN  IF InterpDeficit(k, d) THEN v - 1 ELSE v

ambient_to_percent_Extrapolate(brightness, ambient_min, ambient_max) ==
    LET d == ambient_max - ambient_min
    IN  IF d <= 0 THEN Clip(Interp(brightness, ambient_min, ambient_max), 5, 100)
        ELSE Clip(Trunc(10 * d + 90 * (brightness - ambient_min), d), 5, 100)

ambient_to_percent_Reversed(brightness, ambient_min, ambient_max) ==
    Clip(110 - Interp(brightness, ambient_min, ambient_max), 5, 100)

\* smart_brightness.py lines 153-157
ambient_to_percent(brightness, ambient_min, ambient_max) ==
    Clip(Interp(brightness, ambient_min, ambient_max), 5, 100)

\* ---------------------------------------------------- CalibrationProfile
DefaultAmbientMin == 40
DefaultAmbientMax == 170

Profile(lo, hi, med) ==
    [ambient_min |-> lo, ambient_max |-> hi, ambient_median |-> med]

\* the dictionary create_default_profile writes (no ambient_median key)
DefaultProfile == Profile(DefaultAmbientMin, DefaultAmbientMax, None)

\* the Python value None where a profile is expected
NoProfile == Profile(None, None, None)

File(st, data) == [state |-> st, data |-> data]
AbsentFile  == File("absent", NoProfile)
CorruptFile == File("corrupt", NoProfile)
DefaultFile == File("present", DefaultProfile)

\* create_default_profile, lines 21-31: the file after the call
create_default_profile == DefaultFile

\* lines 57-62: json.load of the file, None when it cannot be opened or parsed
ReadProfile(f) == IF f.state = "present" THEN f.data ELSE NoProfile

\* ------------------------------------------------------------ LightSampler
NoiseFloor       == 10
NeededSamples    == 10
MaxAttempts      == 40
CalNeededSamples == 10
CalMaxAttempts   == 40

\* trimmed means a frame can yield; even, so that the midpoint numpy.median
\* takes of two samples is again an integer level
SampleValues == {60, 150}
\* raw grey means of a frame, on both sides of the noise floor
FrameMeans == {0, 10, 11}

\* what cap.read() returns: no frame, or a frame abstracted to its raw mean
\* and to the trimmed mean the 10th-90th percentile band gives
NoFrame == [ret |-> FALSE, mean |-> 0, sample |-> 0]
Frames == {NoFrame} \cup
          {[ret |-> TRUE, mean |-> m, sample |-> v] : m \in FrameMeans, v \in scene}

\* the part of a frame the capture loop tests before it computes a sample
Raw(f) == [ret |-> f.ret, mean |-> f.mean]

\* the samples in ascending order: position i holds the sample that has
\* fewer than i samples below it and at least i samples not above it
Sort(s) ==
    [i \in 1..Len(s) |->
        CHOOSE x \in {s[j] : j \in 1..Len(s)} :
            /\ Cardinality({j \in 1..Len(s) : s[j] < x}) < i
            /\ i <= Cardinality({j \in 1..Len(s) : s[j] <= x})]

\* float(numpy.median(s)), s non-empty: the middle of the sorted samples, the
\* midpoint of the two middle ones when their number is even
Median(s) ==
    LET t == Sort(s)
        n == Len(t)
    IN  IF n % 2 = 1 THEN t[(n + 1) \div 2]
        ELSE (t[n \div 2] + t[n \div 2 + 1]) \div 2

SeqMin(s) == Sort(s)[1]
SeqMax(s) == Sort(s)[Len(s)]

\* ----------------------------------------- calibration.py, as a subprocess
\* lines 20-35: open the sensor, give up (exit status 0) when it does not open
CalibOpen ==
    /\ pc = "calibrate"
    /\ IF sensor # "ok"
       THEN /\ returncode' = 0
            /\ outcome' = "no_sensor"
            /\ Return
            /\ UNCHANGED <<handles, burstVars>>
       ELSE /\ handles' = handles \cup {"calibration"}
            /\ usable_brightness' = <<>>
            /\ frames_captured' = 0
            /\ max_attempts' = CalMaxAttempts
            /\ UNCHANGED <<frame, bright>>
            /\ pc' = "calibrate_loop"
            /\ UNCHANGED <<stack, returncode, outcome>>
    /\ UNCHANGED <<devVars, envVars, disk, loaded, mainVars, transVars, obsVars>>

\* lines 37-57: one iteration of the capture loop
CalibFrame ==
    /\ pc = "calibrate_loop"
    /\ frames_captured < CalNeededSamples /\ max_attempts > 0
    /\ \E f \in Frames :
         /\ frame' = Raw(f)
         /\ IF ~f.ret
            THEN UNCHANGED <<usable_brightness, frames_captured>>
            ELSE /\ usable_brightness' = Append(usable_brightness, f.sample)
                 /\ frames_captured' = frames_captured + 1
    /\ max_attempts' = max_attempts - 1
    /\ UNCHANGED <<pc, stack, devVars, envVars, disk, handles, loadVars, bright,
                   mainVars, transVars, obsVars>>

\* lines 59-81: release, then either nothing usable or the profile is saved
CalibFinish ==
    /\ pc = "calibrate_loop"
    /\ ~(frames_captured < CalNeededSamples /\ max_attempts > 0)
    /\ handles' = handles \ {"calibration"}
    /\ IF usable_brightness = <<>>
       THEN /\ outcome' = "no_frames"
            /\ UNCHANGED disk
       ELSE /\ outcome' = "saved"
            /\ disk' = File("present", Profile(SeqMin(usable_brightness),
                                               SeqMax(usable_brightness),
                                               Median(usable_brightness)))
    /\ returncode' = 0
    /\ Return
    /\ UNCHANGED <<devVars, envVars, loaded, burstVars, mainVars, transVars, obsVars>>

\* an exception escapes calibrate_camera (a frame OpenCV cannot convert, a
\* profile file that cannot be written): the process ends with status 1 and
\* its handle goes with it
CalibCrash ==
    /\ pc = "calibrate_loop"
    /\ handles' = handles \ {"calibration"}
    /\ returncode' = 1
    /\ outcome' = "crashed"
    /\ Return
    /\ UNCHANGED <<devVars, envVars, disk, loaded, burstVars, mainVars, transVars, obsVars>>

\* ------------------------------------------------------ load_camera_profile
\* lines 35-46 when the file is absent (default profile and None without the
\* script, else the subprocess is started), lines 57-62 when it exists
LoadStart ==
    /\ pc = "load"
    /\ IF disk.state = "absent"
       THEN IF ~script
            THEN /\ disk' = create_default_profile
                 /\ loaded' = NoProfile
                 /\ Return
            ELSE /\ pc' = "calibrate"
                 /\ stack' = <<"load_calibrated">> \o stack
                 /\ UNCHANGED <<disk, loaded>>
       ELSE /\ loaded' = ReadProfile(disk)
            /\ Return
            /\ UNCHANGED disk
    /\ UNCHANGED <<devVars, envVars, handles, returncode, outcome, burstVars,
                   mainVars, transVars, obsVars>>

\* lines 46-62 after the subprocess has ended: a non-zero status writes the
\* default profile and returns None; status 0 falls through to reading the file
LoadCalibrated ==
    /\ pc = "load_calibrated"
    /\ IF returncode # 0
       THEN /\ disk' = create_default_profile
            /\ loaded' = NoProfile
       ELSE /\ loaded' = ReadProfile(disk)
            /\ UNCHANGED disk
    /\ Return
    /\ UNCHANGED <<devVars, envVars, handles, returncode, outcome, burstVars,
                   mainVars, transVars, obsVars>>

\* --------------------------------------------------- get_average_brightness
\* lines 68-75: open the sensor, None when it does not open, else load the
\* profile
SampleOpen ==
    /\ pc = "sample_open"
    /\ IF sensor # "ok"
       THEN /\ ambient' = None
            /\ Return
            /\ UNCHANGED handles
       ELSE /\ handles' = handles \cup {"runtime"}
            /\ pc' = "load"
            /\ stack' = <<"sample_profiled">> \o stack
            /\ UNCHANGED ambient
    /\ UNCHANGED <<devVars, envVars, disk, loadVars, burstVars, profile,
                   target_percent, current_percent, transVars, obsVars>>

\* lines 76-88: None without a profile, else configure and start the burst
SampleProfiled ==
    /\ pc = "sample_profiled"
    /\ IF loaded = NoProfile
       THEN /\ ambient' = None
            /\ Return
            /\ UNCHANGED burstVars
       ELSE /\ usable_brightness' = <<>>
            /\ frames_captured' = 0
            /\ max_attempts' = MaxAttempts
            /\ bright' = <<>>
            /\ frame' = frame
            /\ pc' = "sample_loop"
            /\ UNCHANGED <<stack, ambient>>
    /\ UNCHANGED <<devVars, envVars, disk, handles, loadVars, profile,
                   target_percent, current_percent, transVars, obsVars>>

Accepts_AtFloor(f) == f.ret /\ f.mean >= NoiseFloor

Accepts_Any(f) == f.ret

\* lines 91-101: a frame goes on to the trimmed mean when it was read and its
\* raw mean is above the noise floor
Accepts(f) == f.ret /\ ~(f.mean <= NoiseFloor)

SampleFrame_FreeReject ==
    /\ pc = "sample_loop"
    /\ frames_captured < NeededSamples /\ max_attempts > 0
    /\ \E f \in Frames :
         /\ frame' = Raw(f)
         /\ IF Accepts(f)
            THEN /\ usable_brightness' = Append(usable_brightness, f.sample)
                 /\ frames_captured' = frames_captured + 1
                 /\ max_attempts' = max_attempts - 1
            ELSE UNCHANGED <<usable_brightness, frames_captured, max_attempts>>
         /\ bright' = IF f.ret /\ f.mean > NoiseFloor
                       THEN Append(bright, f.sample) ELSE bright
    /\ UNCHANGED <<pc, stack, devVars, envVars, disk, handles, loadVars,
                   mainVars, transVars, obsVars>>

\* lines 90-114: one iteration of the capture loop
SampleFrame ==
    /\ pc = "sample_loop"
    /\ frames_captured < NeededSamples /\ max_attempts > 0
    /\ \E f \in Frames :
         /\ frame' = Raw(f)
         /\ IF Accepts(f)
            THEN /\ usable_brightness' = Append(usable_brightness, f.sample)
                 /\ frames_captured' = frames_captured + 1
            ELSE UNCHANGED <<usable_brightness, frames_captured>>
         /\ bright' = IF f.ret /\ f.mean > NoiseFloor
                       THEN Append(bright, f.sample) ELSE bright
    /\ max_attempts' = max_attempts - 1
    /\ UNCHANGED <<pc, stack, devVars, envVars, disk, handles, loadVars,
                   mainVars, transVars, obsVars>>

\* lines 116-124: release, then None or the median of the samples
SampleFinish ==
    /\ pc = "sample_loop"
    /\ ~(frames_captured < NeededSamples /\ max_attempts > 0)
    /\ handles' = handles \ {"runtime"}
    /\ ambient' = IF usable_brightness = <<>> THEN None ELSE Median(usable_brightness)
    /\ Return
    /\ UNCHANGED <<devVars, envVars, disk, loadVars, burstVars, profile,
                   target_percent, current_percent, transVars, obsVars>>

\* --------------------------------------------------------------------- main
\* line 163
MainStart ==
    /\ pc = "main"
    /\ pc' = "load"
    /\ stack' = <<"main_loaded">> \o stack
    /\ UNCHANGED <<devVars, camVars, transVars, obsVars>>

\* lines 164-171: stop without a profile, else sample
MainLoaded ==
    /\ pc = "main_loaded"
    /\ IF loaded = NoProfile
       THEN /\ Return
            /\ UNCHANGED profile
       ELSE /\ profile' = loaded
            /\ pc' = "sample_open"
            /\ stack' = <<"main_sampled">> \o stack
    /\ UNCHANGED <<devVars, envVars, disk, handles, loadVars, burstVars, ambient,
                   target_percent, current_percent, transVars, obsVars>>

MainSampled_NoSkip ==
    /\ pc = "main_sampled"
    /\ target_percent' =
          ambient_to_percent(IF ambient = None THEN 0 ELSE ambient,
                             profile.ambient_min, profile.ambient_max)
    /\ pc' = "main_read"
    /\ stack' = stack
    /\ UNCHANGED <<devVars, envVars, disk, handles, loadVars, burstVars, profile,
                   ambient, current_percent, transVars, obsVars>>

\* profile.get(key, default)
Get(p, key, default) == IF p[key] = None THEN default ELSE p[key]

\* lines 168-176: skip the cycle without a reading, else map it
MainSampled ==
    /\ pc = "main_sampled"
    /\ IF ambient = None
       THEN /\ Return
            /\ UNCHANGED target_percent
       ELSE /\ target_percent' =
                  ambient_to_percent(ambient,
                                     Get(profile, "ambient_min", DefaultAmbientMin),
                                     Get(profile, "ambient_max", DefaultAmbientMax))
            /\ pc' = "main_read"
            /\ stack' = stack
    /\ UNCHANGED <<devVars, envVars, disk, handles, loadVars, burstVars, profile,
                   ambient, current_percent, transVars, obsVars>>

\* lines 177-185: read the device and start the transition with the default
\* duration and step size
MainRead ==
    /\ pc = "main_read"
    /\ current_percent' = get_current_brightness
    /\ current' = get_current_brightness
    /\ target' = target_percent
    /\ step_size' = 2
    /\ setter' = TRUE
    /\ reader' = TRUE
    /\ pc' = "smooth_transition"
    /\ stack' = <<"main_done">> \o stack
    /\ UNCHANGED <<devVars, envVars, disk, handles, loadVars, burstVars, profile,
                   ambient, target_percent, steps, step, transition_value, polls,
                   obsVars>>

\* line 186
MainDone ==
    /\ pc = "main_done"
    /\ Return
    /\ UNCHANGED <<devVars, camVars, transVars, obsVars>>

\* ------------------------------------------------------- starting values
TransitionIdle ==
    /\ steps = 0 /\ step = 0 /\ transition_value = 0 /\ polls = 0

Unobserved == applied = <<>> /\ reads = 0 /\ sleeps = 0

CameraIdle ==
    /\ handles = {}
    /\ loaded = NoProfile
    /\ returncode = 0
    /\ outcome = "none"
    /\ usable_brightness = <<>> /\ frames_captured = 0 /\ max_attempts = 0
    /\ frame = Raw(NoFrame)
    /\ bright = <<>>

MainIdle ==
    /\ profile = NoProfile /\ ambient = None
    /\ target_percent = 0 /\ current_percent = 0

\* ---------------------------------------------------------------------
\* TransSpec: one call of smooth_transition from each of CurrentInputs to
\* every target in 0..100, step sizes 1..MaxStepSize, with and without setter
\* and reader, against a working device.

\* starting percentages: the least value read() returns, the values around
\* the lower clamp, both sides of the point where FloatDeficit stops applying
\* to a distance of 27, the scenario of the specification, the neutral
\* default of get_current_brightness, and the top of the range
CurrentInputs == {0, 4, 5, 13, 14, 30, 50, 95, 100}

TransInit ==
    /\ pc = "smooth_transition"
    /\ stack = <<>>
    /\ device = "ok"
    /\ current \in CurrentInputs
    /\ hw = current
    /\ target \in 0..100
    /\ step_size \in 1..MaxStepSize
    /\ setter \in BOOLEAN
    /\ reader \in (IF setter THEN BOOLEAN ELSE {FALSE})
    /\ TransitionIdle
    /\ Unobserved
    /\ sensor = "ok" /\ script = TRUE /\ scene = SampleValues /\ disk = DefaultFile
    /\ CameraIdle
    /\ MainIdle

TransNext == TransitionEnter \/ TransitionStep \/ TransitionPoll \/ TransitionFinal

TransSpec == TransInit /\ [][TransNext]_vars

\* ---------------------------------------------------------------------
\* MapSpec: line 176 of main on every ambient level of AmbientInputs and
\* every profile with ambient_min in ProfileMins and ambient_max in
\* 0..MaxAmbient (ordered, equal and inverted bounds).
AmbientInputs == {-60} \cup (0..MaxAmbient) \cup {10000}
ProfileMins == {0, 40, 50}

MapInit ==
    /\ pc = "main_sampled"
    /\ stack = <<>>
    /\ ambient \in AmbientInputs
    /\ \E lo \in ProfileMins, hi \in 0..MaxAmbient : profile = Profile(lo, hi, None)
    /\ target_percent = 0 /\ current_percent = 0
    /\ device = "ok" /\ hw = 50
    /\ sensor = "ok" /\ script = TRUE /\ scene = SampleValues /\ disk = DefaultFile
    /\ CameraIdle
    /\ current = 0 /\ target = 0 /\ step_size = 2 /\ setter = TRUE /\ reader = TRUE
    /\ TransitionIdle
    /\ Unobserved

MapNext == MainSampled

MapSpec == MapInit /\ [][MapNext]_vars

\* ---------------------------------------------------------------------
\* BurstSpec: one call of get_average_brightness with the sensor present or
\* not, the profile file readable, unreadable, or absent with no calibration
\* script, and every sequence of frames.
BurstInit ==
    /\ pc = "sample_open"
    /\ stack = <<>>
    /\ sensor \in {"ok", "unavailable"}
    /\ disk \in {DefaultFile, CorruptFile, AbsentFile}
    /\ script = (disk # AbsentFile)
    /\ scene = SampleValues
    /\ device = "ok" /\ hw = 50
    /\ CameraIdle
    /\ MainIdle
    /\ current = 0 /\ target = 0 /\ step_size = 2 /\ setter = TRUE /\ reader = TRUE
    /\ TransitionIdle
    /\ Unobserved

BurstNext == SampleOpen \/ LoadStart \/ SampleProfiled \/ SampleFrame \/ SampleFinish

BurstSpec == BurstInit /\ [][BurstNext]_vars

\* ---------------------------------------------------------------------
\* Spec: one control cycle (main) in every environment: sensor and
\* brightness device present or not, the profile file absent, default or
\* unreadable, the calibration script present or not, under a steady light
\* (every usable frame of the cycle gives the same trimmed mean).
HwInputs == {0, 55}

Init ==
    /\ pc = "main"
    /\ stack = <<>>
    /\ sensor \in {"ok", "unavailable"}
    /\ disk \in {DefaultFile, CorruptFile, AbsentFile}
    /\ script \in (IF disk = AbsentFile THEN BOOLEAN ELSE {TRUE})
    /\ scene \in {{v} : v \in SampleValues}
    /\ device \in {"ok", "unavailable"}
    /\ hw \in (IF device = "ok" THEN HwInputs ELSE {55})
    /\ CameraIdle
    /\ MainIdle
    /\ current = 0 /\ target = 0 /\ step_size = 2 /\ setter = TRUE /\ reader = TRUE
    /\ TransitionIdle
    /\ Unobserved

Next ==
    \/ MainStart \/ MainLoaded \/ MainSampled \/ MainRead \/ MainDone
    \/ LoadStart \/ LoadCalibrated
    \/ CalibOpen \/ CalibFrame \/ CalibFinish \/ CalibCrash
    \/ SampleOpen \/ SampleProfiled \/ SampleFrame \/ SampleFinish
    \/ TransitionEnter \/ TransitionStep \/ TransitionPoll \/ TransitionFinal

Spec == Init /\ [][Next]_vars

\* the program is one thread that keeps running: inside smooth_transition a
\* step that can be taken is taken
FairSpec == Spec /\ WF_vars(TransNext)

\* ---------------------------------------------------------------------
\* RunSpec: one call of smooth_transition that runs to its end or to the
\* place where it waits, against a device that follows every command at once
\* and against one that never reports the commanded value.  The program is
\* one thread that keeps running: a step that can be taken is taken.
RunInputs == {5, 50, 95}
\* targets below and at the lower clamp, next to and far from each input
RunTargets == {0, 4, 5, 6, 27, 49, 50, 51, 77, 95, 100}

RunInit ==
    /\ pc = "smooth_transition"
    /\ stack = <<>>
    /\ device \in {"ok", "unavailable"}
    /\ current \in RunInputs
    /\ hw = current
    /\ target \in RunTargets
    /\ step_size \in 1..MaxStepSize
    /\ setter \in BOOLEAN
    /\ reader \in (IF setter THEN BOOLEAN ELSE {FALSE})
    /\ TransitionIdle
    /\ Unobserved
    /\ sensor = "ok" /\ script = TRUE /\ scene = SampleValues /\ disk = DefaultFile
    /\ CameraIdle
    /\ MainIdle

RunSpec == RunInit /\ [][TransNext]_vars /\ WF_vars(TransNext)

\* ---------------------------------------------------------------------
\* SamplerSpec: one sampling burst, of calibrate_camera or of
\* get_average_brightness, with the sensor present or not, under a steady
\* light and every sequence of failed, dark and usable frames.
SamplerInit ==
    /\ pc \in {"calibrate", "sample_open"}
    /\ stack = <<>>
    /\ sensor \in {"ok", "unavailable"}
    /\ disk = (IF pc = "calibrate" THEN AbsentFile ELSE DefaultFile)
    /\ script = TRUE
    /\ scene \in {{v} : v \in SampleValues}
    /\ device = "ok" /\ hw = 50
    /\ CameraIdle
    /\ MainIdle
    /\ current = 0 /\ target = 0 /\ step_size = 2 /\ setter = TRUE /\ reader = TRUE
    /\ TransitionIdle
    /\ Unobserved

SamplerNext ==
    \/ CalibOpen \/ CalibFrame \/ CalibFinish \/ CalibCrash
    \/ SampleOpen \/ LoadStart \/ SampleProfiled \/ SampleFrame \/ SampleFinish

SamplerSpec == SamplerInit /\ [][SamplerNext]_vars

\* ---------------------------------------------------------------------
\* CycleSpec: lines 176-186 of main, from a sampled ambient level to the end
\* of the transition, for every brightness 0..100 the device can report,
\* the default profile, a calibrated profile and a degenerate one, and
\* ambient levels below, at, inside, at the end of and above the profiles.
CycleAmbients == {0, 40, 47, 60, 105, 150, 169, 170, 255}
CycleProfiles == {DefaultProfile, Profile(60, 150, 105), Profile(60, 60, 60)}

CycleInit ==
    /\ pc = "main_sampled"
    /\ stack = <<>>
    /\ ambient \in CycleAmbients
    /\ profile \in CycleProfiles
    /\ target_percent = 0 /\ current_percent = 0
    /\ device = "ok" /\ hw \in 0..100
    /\ sensor = "ok" /\ script = TRUE /\ scene = SampleValues
    /\ disk = File("present", profile)
    /\ CameraIdle
    /\ current = 0 /\ target = 0 /\ step_size = 2 /\ setter = TRUE /\ reader = TRUE
    /\ TransitionIdle
    /\ Unobserved

CycleNext ==
    \/ MainSampled \/ MainRead \/ MainDone
    \/ TransitionEnter \/ TransitionStep \/ TransitionPoll \/ TransitionFinal

CycleSpec == CycleInit /\ [][CycleNext]_vars

\* =====================================================================
\* Properties of smooth_transition (TransSpec)

\* the values of seq never move against direction dir and never pass tgt
MonotoneToward(seq, dir, tgt) ==
    /\ \A i \in 1..(Len(seq) - 1) : dir * (seq[i + 1] - seq[i]) >= 0
    /\ \A i \in 1..Len(seq) : dir * (tgt - seq[i]) >= 0

\* C1: for current and target in [5,100], current # target, any step size,
\* once smooth_transition has returned the last value passed to setter is
\* target exactly.
C1_EndpointExact ==
    (pc = "exit" /\ setter /\ current # target
        /\ current \in 5..100 /\ target \in 5..100)
    => (applied # <<>> /\ Last(applied) = target)

C1_Witness ==
    /\ pc = "exit" /\ setter /\ current = 5 /\ target = 100 /\ step_size = 1
    /\ Len(applied) = 96
    /\ applied[95] = 99
    /\ Last(applied) = target

\* C2 as stated: for every current and target the values passed to setter by
\* one run are monotonic in the direction of target and never pass it.
C2_MonotoneEveryTarget ==
    (setter /\ current # target)
    => MonotoneToward(applied, Direction(current, target), target)

\* C2 as amended: the same for every current and every target in [5,100].
C2_MonotoneApproach ==
    (setter /\ current # target /\ target \in 5..100)
    => MonotoneToward(applied, Direction(current, target), target)

C2_Witness ==
    /\ pc = "exit" /\ setter /\ current = 0 /\ target = 27 /\ step_size = 1
    /\ Len(applied) = 28
    /\ applied[10] = 18
    /\ \E i \in 1..27 : applied[i] < applied[i + 1]

\* C3: when current == target the run makes no setter call, no reader call
\* and no sleep, and leaves the device as it was.
C3_NoOp ==
    (current = target)
    => (applied = <<>> /\ reads = 0 /\ sleeps = 0 /\ hw = current
        /\ pc \in {"smooth_transition", "exit"})

C3_Witness ==
    /\ pc = "exit" /\ current = 50 /\ target = 50 /\ setter /\ reader
    /\ applied = <<>> /\ reads = 0 /\ sleeps = 0

\* C4: when current # target the run is linear: stepCount =
\* max(|target - current| div stepSize, 1) stepped setter calls, one per loop
\* index, then exactly one setter(target), then the return; 30 -> 80 with
\* step size 2 makes 25 stepped calls and a final call of 80.
C4_LinearPlan ==
    (setter /\ current # target)
    => LET q == Abs(target - current) \div step_size
           n == IF q >= 1 THEN q ELSE 1
       IN  /\ pc \in {"smooth_transition", "transition_loop", "transition_poll", "exit"}
           /\ pc = "smooth_transition" => applied = <<>>
           /\ pc = "transition_loop" => (steps = n /\ step <= n /\ Len(applied) = step)
           /\ pc = "transition_poll" => (steps = n /\ step < n /\ Len(applied) = step + 1)
           /\ pc = "exit" => (Len(applied) = n + 1 /\ applied[n + 1] = target)
           /\ (pc = "exit" /\ current = 30 /\ target = 80 /\ step_size = 2)
                => (Len(applied) = 26 /\ applied[26] = 80)

C4_Witness ==
    /\ pc = "exit" /\ setter /\ current = 30 /\ target = 80 /\ step_size = 2
    /\ Len(applied) = 26 /\ applied[25] = 79 /\ applied[26] = 80

\* =====================================================================
\* Properties of the control cycle (Spec, FairSpec)

\* the final correction of the cycle's transition has been commanded
FinalIssued ==
    /\ pc \in {"main_done", "exit"}
    /\ applied # <<>>
    /\ Last(applied) = target_percent

\* C5: in a control cycle that has computed a target differing from the
\* brightness it read, the final setter(target) is eventually issued, whether
\* the brightness device works or is unavailable (reads give 50, writes do
\* nothing).
C5_FinalApplyIssued ==
    (pc = "smooth_transition" /\ stack # <<>> /\ current # target) ~> FinalIssued

\* C6: when no profile file exists and the calibration run ends without a
\* profile (sensor not opened, or no usable frame), load_camera_profile
\* returns the default profile (40, 170) and main goes on to sample.
C6_FallbackToDefault ==
    (outcome \in {"no_sensor", "no_frames"})
    => /\ pc = "main_loaded" => loaded = DefaultProfile
       /\ pc = "exit" => profile = DefaultProfile

\* =====================================================================
\* Properties of ambient_to_percent (MapSpec)

\* the interpolation of the specification, in exact arithmetic
Reference(a, lo, hi) ==
    IF a <= lo THEN 10
    ELSE IF a >= hi THEN 100
    ELSE (10 * (hi - lo) + (a - lo) * 90) \div (hi - lo)

\* the exact interpolated value is an integer
ExactIsWhole(a, lo, hi) == ((a - lo) * 90) % (hi - lo) = 0

Mapped == pc = "main_read"

C8_Monotone ==
    (Mapped /\ profile.ambient_min < profile.ambient_max)
    => \A b \in AmbientInputs :
         b <= ambient
         => ambient_to_percent(b, profile.ambient_min, profile.ambient_max)
              <= target_percent

C8_Witness ==
    /\ Mapped
    /\ profile.ambient_min = 40 /\ profile.ambient_max = 170 /\ ambient = 105
    /\ target_percent = 55
    /\ ambient_to_percent(104, 40, 170) = 54
    /\ ambient_to_percent(0, 40, 170) = 10

\* C9: with ambient_min = ambient_max the result is one and the same
\* constant for every ambient value.
C9_DegenerateConstant ==
    (Mapped /\ profile.ambient_min = profile.ambient_max)
    => \A x \in AmbientInputs :
         ambient_to_percent(x, profile.ambient_min, profile.ambient_max)
           = target_percent

\* =====================================================================
\* Properties of get_average_brightness (BurstSpec)

\* the k-th smallest element of s, by counting
Kth(s, k) ==
    CHOOSE x \in {s[i] : i \in 1..Len(s)} :
        /\ Cardinality({i \in 1..Len(s) : s[i] < x}) < k
        /\ k <= Cardinality({i \in 1..Len(s) : s[i] <= x})

\* m is the median of the non-empty s: the middle element, or the midpoint
\* of the two middle elements
IsMedian(m, s) ==
    LET n == Len(s)
    IN  IF n % 2 = 1 THEN m = Kth(s, (n + 1) \div 2)
        ELSE 2 * m = Kth(s, n \div 2) + Kth(s, n \div 2 + 1)

\* the call returned after running its capture loop
BurstReturned == pc = "exit" /\ sensor = "ok" /\ loaded # NoProfile

\* C10: a runtime burst none of whose frames has a mean above the noise floor
\* returns None with the attempts used up; a burst with at least one frame
\* above the floor returns the median of the samples of those frames.
C10_SamplerRejection ==
    BurstReturned
    => /\ bright = <<>> => (ambient = None /\ max_attempts = 0)
       /\ bright # <<>> => (ambient # None /\ IsMedian(ambient, bright))

C10_Witness ==
    /\ BurstReturned
    /\ Len(bright) = 10 /\ max_attempts < 25
    /\ ambient = 105
    /\ bright[1] = 150 /\ bright[10] = 60

\* =====================================================================
\* Properties of the sampling bursts (SamplerSpec)

InBurst == pc \in {"calibrate_loop", "sample_loop"}

\* C11: in a burst of calibrate_camera as well as of get_average_brightness,
\* a sample is appended to usable_brightness only for a frame that was read
\* and whose raw mean is above the noise floor.
C11_OnlyAboveThreshold ==
    [][(InBurst /\ Len(usable_brightness') > Len(usable_brightness))
         => (frame'.ret /\ frame'.mean > NoiseFloor)]_vars

\* C12: when a sampling call has returned, by any path (sensor not opened,
\* no profile, no usable frame, a reading), the sensor handle it opened has
\* been released.
C12_HandleReleased == (pc = "exit") => (handles = {})

\* samples the running burst stops at
Needed == IF pc = "calibrate_loop" THEN CalNeededSamples ELSE NeededSamples

\* what is left of a sampling call: the position, then the attempts
Remaining ==
    CASE pc = "sample_open"      -> 205
      [] pc = "load"             -> 164
      [] pc = "sample_profiled"  -> 123
      [] pc = "calibrate"        -> 123
      [] InBurst                 -> 41 + max_attempts
      [] OTHER                   -> 0

\* C15: a burst of either sampler terminates: every step of the call lowers
\* what remains of it and the call can always go on until it has returned;
\* each iteration of the loop, with a failed read, a rejected frame or an
\* accepted one, uses up exactly one of the 40 attempts and adds at most one
\* sample; the loop runs only while fewer than 10 samples are held and
\* attempts are left, and is left (short of an exception) only when one of
\* the two is no longer so.
C15_BurstBounded ==
    /\ [](pc # "exit" => ENABLED <<SamplerNext>>_vars)
    /\ [](InBurst => (/\ frames_captured = Len(usable_brightness)
                       /\ frames_captured <= Needed
                       /\ max_attempts \in 0..40
                       /\ frames_captured <= 40 - max_attempts))
    /\ [][(Remaining' < Remaining)
           /\ ((InBurst /\ pc' = pc)
                 => (/\ frames_captured < Needed /\ max_attempts > 0
                     /\ max_attempts' = max_attempts - 1
                     /\ Len(usable_brightness') - Len(usable_brightness) \in {0, 1}))
           /\ ((InBurst /\ pc' # pc /\ returncode' = 0)
                 => (frames_captured = Needed \/ max_attempts = 0))]_vars

C15_Witness ==
    /\ pc = "exit" /\ ambient # None
    /\ frames_captured = NeededSamples /\ Len(usable_brightness) = 10
    /\ max_attempts = 25
    /\ frame.mean > NoiseFloor

\* C18: the profile a calibration run has saved has ambient_min <=
\* ambient_median <= ambient_max and ambient_min < ambient_max.
C18_ProfileOrdered ==
    (outcome = "saved")
    => /\ disk.state = "present"
       /\ disk.data.ambient_min <= disk.data.ambient_median
       /\ disk.data.ambient_median <= disk.data.ambient_max
       /\ disk.data.ambient_min < disk.data.ambient_max

\* =====================================================================
\* Properties of the feedback poll and of termination (RunSpec)

\* the reader differs from the commanded value by more than 1
Mismatch == Abs(get_current_brightness - transition_value) > 1

\* C13: with a reader, while the value read differs from the commanded value
\* by more than 1 the run stays at that step and issues no setter call,
\* however many polls have failed; and every setter call after the first is
\* issued only after at least one read per earlier call, with the device
\* within 1 of the value commanded last.
C13_NoAdvanceOnMismatch ==
    [][/\ (reader /\ pc = "transition_poll" /\ Mismatch)
            => (pc' = "transition_poll" /\ step' = step /\ applied' = applied
                /\ reads' = reads + 1)
       /\ (reader /\ applied' # applied /\ applied # <<>>)
            => (/\ pc = "transition_loop"
                /\ reads >= Len(applied)
                /\ Abs(get_current_brightness - Last(applied)) <= 1)]_vars

C13_Witness ==
    /\ pc = "transition_poll" /\ reader /\ device = "unavailable"
    /\ current = 50 /\ target = 100 /\ step_size = 2
    /\ applied = <<50, 55>> /\ step = 1
    /\ Mismatch
    /\ polls = MaxPolls /\ reads = MaxPolls + 1

\* the run cannot take a step
Blocked == pc # "exit" /\ ~ENABLED <<TransNext>>_vars

\* C14: without a reader the run always returns, after steps iterations with
\* one sleep each; with a reader it returns when the device reports every
\* commanded value; and a run that cannot go on is in the feedback poll with
\* a reading more than 1 from the commanded value.
C14_Terminates ==
    /\ (~reader \/ device = "ok") => <>(pc = "exit")
    /\ []((pc = "exit" /\ ~reader /\ current # target)
            => (step = steps /\ steps = StepCount(current, target, step_size)
                /\ sleeps = steps /\ reads = 0))
    /\ [](Blocked => (reader /\ pc = "transition_poll" /\ Mismatch))

C14_Witness ==
    /\ pc = "exit" /\ reader /\ device = "ok"
    /\ current = 95 /\ target = 5 /\ step_size = 2
    /\ steps = 45 /\ step = 45 /\ reads = 45 /\ Len(applied) = 46

\* =====================================================================
\* Further properties of the control cycle (Spec, CycleSpec)

\* get_average_brightness has returned None to main
SamplingFailed == pc = "main_sampled" /\ ambient = None

\* C16: when sampling has failed (sensor not opened, or no usable frame) the
\* cycle ends there: main returns at once, the brightness device is not
\* read and not written, and no value was or is passed to setter.
C16_SkipOnSamplingFailure ==
    /\ []((profile # NoProfile /\ ambient = None)
            => (/\ applied = <<>> /\ reads = 0 /\ current_percent = 0
                /\ pc \notin {"main_read", "smooth_transition", "transition_loop",
                               "transition_poll", "main_done"}))
    /\ [][SamplingFailed
            => (/\ pc' = "exit"
                /\ hw' = hw /\ applied' = applied /\ reads' = reads
                /\ current_percent' = current_percent)]_vars

C16_Witness ==
    /\ pc = "exit" /\ profile = DefaultProfile /\ ambient = None
    /\ sensor = "ok" /\ max_attempts = 0 /\ usable_brightness = <<>>
    /\ frame.ret /\ frame.mean <= NoiseFloor
    /\ applied = <<>> /\ hw = 55

\* C17: in a control cycle every value passed to setter, stepped or final,
\* is in [5,100], for every brightness 0..100 read from the device and every
\* target ambient_to_percent gives; the target itself is in [5,100].
C17_AppliedInRange ==
    /\ \A i \in 1..Len(applied) : applied[i] \in 5..100
    /\ (pc # "main_sampled") => target_percent \in 5..100
    /\ (applied # <<>>) => hw = Last(applied)

C17_Witness ==
    /\ pc = "exit" /\ current = 0 /\ current_percent = 0
    /\ profile = DefaultProfile /\ ambient = 47 /\ target = 14
    /\ applied = <<5, 5, 8, 11, 12, 13, 13, 14>>
    /\ hw = 14

\* C19: when load_camera_profile has returned, a profile file is on disk,
\* whatever the calibration run did (saved, sensor not opened, no usable
\* frame, non-zero exit).
C19_ProfileOnDiskAfterLoad ==
    (pc \in {"main_loaded", "sample_profiled"}) => (disk.state # "absent")

====
